---- MODULE Spec2Model ----
(***************************************************************************)
(* A model of generate.py: the DeFi yield dashboard generator.             *)
(*                                                                         *)
(*   fetch_pools -> for proto in PROTOCOLS: find_best_pool -> build_html   *)
(*   -> write docs/index.html                                              *)
(*                                                                         *)
(* Values.  A Python str is a record [tag |-> "str", s |-> <<chars>>], the *)
(* characters being one-character strings; None is [tag |-> "None"]; NaN   *)
(* is [tag |-> "nan"].  An APY is a number of hundredths of a percent      *)
(* point, Pct(1234) being 12.34.  A TVL is a whole number of dollars held  *)
(* as Usd(hi, lo) = hi * 10^6 + lo with 0 <= lo < 10^6, so that values     *)
(* beyond 2^31 stay inside the integers TLC computes with.  Numbers other  *)
(* than NaN are non-negative; of the decimals that fall exactly half way   *)
(* between two roundings only those whose double is exact are drawn as     *)
(* inputs (x.5 for no decimals, x.25 and x.75 for one), because for the    *)
(* others the direction depends on the 53-bit representation.              *)
(***************************************************************************)
EXTENDS Integers, Sequences, FiniteSets, TLC

VARIABLES
    PROTOCOLS,   \* the module-level list of protocol descriptors
    pc,          \* where main() is
    exc,         \* the exception that ended main(), None while there is none
    pools,       \* main: the list fetch_pools returned
    idx,         \* main: position of `for proto in PROTOCOLS` (1-based)
    candidates,  \* find_best_pool: the list bound to `candidates`
    exact,       \* find_best_pool: the list bound to `exact`
    results,     \* main: the results list
    html,        \* main: the page build_html returned
    file,        \* docs/index.html on disk
    requests_n,  \* number of HTTP GETs issued
    writes_n,    \* number of write_text calls
    fmt_in,      \* formatter harness: the argument
    fmt_out      \* formatter harness: the returned string

vars == <<PROTOCOLS, pc, exc, pools, idx, candidates, exact, results, html, file,
          requests_n, writes_n, fmt_in, fmt_out>>

-----------------------------------------------------------------------------
(* Values *)

None == [tag |-> "None"]
NaN == [tag |-> "nan"]
Str(chars) == [tag |-> "str", s |-> chars]
Pct(c) == [tag |-> "pct", c |-> c]
Usd(hi, lo) == [tag |-> "usd", hi |-> hi, lo |-> lo]

\* (v or ""): None and "" both give "".
OrEmpty(v) == IF v = None THEN <<>> ELSE v.s

-----------------------------------------------------------------------------
(* str.lower, str.upper, `in` on ASCII strings *)

LowerCase == <<"a","b","c","d","e","f","g","h","i","j","k","l","m",
               "n","o","p","q","r","s","t","u","v","w","x","y","z">>
UpperCase == <<"A","B","C","D","E","F","G","H","I","J","K","L","M",
               "N","O","P","Q","R","S","T","U","V","W","X","Y","Z">>

LowerChar(c) ==
    IF \E k \in 1..26 : UpperCase[k] = c
    THEN LowerCase[CHOOSE k \in 1..26 : UpperCase[k] = c]
    ELSE c

UpperChar(c) ==
    IF \E k \in 1..26 : LowerCase[k] = c
    THEN UpperCase[CHOOSE k \in 1..26 : LowerCase[k] = c]
    ELSE c

lower(s) == [k \in 1..Len(s) |-> LowerChar(s[k])]
upper(s) == [k \in 1..Len(s) |-> UpperChar(s[k])]

\* a in b
In(a, b) ==
    \E off \in 0..(Len(b) - Len(a)) : SubSeq(b, off + 1, off + Len(a)) = a

-----------------------------------------------------------------------------
(* PROTOCOLS, lines 13-24: the fields the program computes with (project,  *)
(* symbol, search_chain, risk, category) and the name; the other fields    *)
(* are copied into the page unchanged.                                     *)

Registry == <<
    [name |-> "Aave v3", category |-> "Lending", risk |-> "low",
     project |-> <<"a","a","v","e","-","v","3">>,
     symbol |-> <<"U","S","D","C">>,
     search_chain |-> <<"E","t","h","e","r","e","u","m">>],
    [name |-> "Morpho", category |-> "Lending", risk |-> "low",
     project |-> <<"m","o","r","p","h","o">>,
     symbol |-> <<"U","S","D","C">>,
     search_chain |-> <<"E","t","h","e","r","e","u","m">>],
    [name |-> "Lido", category |-> "Staking", risk |-> "low",
     project |-> <<"l","i","d","o">>,
     symbol |-> <<"S","T","E","T","H">>,
     search_chain |-> <<"E","t","h","e","r","e","u","m">>],
    [name |-> "Curve Finance", category |-> "Liquidity", risk |-> "low",
     project |-> <<"c","u","r","v","e","-","d","e","x">>,
     symbol |-> <<"3","C","R","V">>,
     search_chain |-> <<"E","t","h","e","r","e","u","m">>],
    [name |-> "Uniswap v3", category |-> "Liquidity", risk |-> "medium",
     project |-> <<"u","n","i","s","w","a","p","-","v","3">>,
     symbol |-> <<"U","S","D","C">>,
     search_chain |-> <<"E","t","h","e","r","e","u","m">>],
    [name |-> "Pendle Finance", category |-> "Yield", risk |-> "medium",
     project |-> <<"p","e","n","d","l","e">>,
     symbol |-> <<"E","E","T","H">>,
     search_chain |-> <<"E","t","h","e","r","e","u","m">>],
    [name |-> "Convex Finance", category |-> "Yield", risk |-> "medium",
     project |-> <<"c","o","n","v","e","x","-","f","i","n","a","n","c","e">>,
     symbol |-> <<"C","V","X","C","R","V">>,
     search_chain |-> <<"E","t","h","e","r","e","u","m">>],
    [name |-> "Ethena", category |-> "CDP", risk |-> "medium",
     project |-> <<"e","t","h","e","n","a">>,
     symbol |-> <<"S","U","S","D","E">>,
     search_chain |-> <<"E","t","h","e","r","e","u","m">>],
    [name |-> "Kamino", category |-> "Yield", risk |-> "medium",
     project |-> <<"k","a","m","i","n","o","-","l","i","q","u","i","d","i","t","y">>,
     symbol |-> <<"U","S","D","C">>,
     search_chain |-> <<"S","o","l","a","n","a">>],
    [name |-> "Yearn Finance", category |-> "Yield", risk |-> "low",
     project |-> <<"y","e","a","r","n","-","f","i","n","a","n","c","e">>,
     symbol |-> <<"Y","V","U","S","D","C">>,
     search_chain |-> <<"E","t","h","e","r","e","u","m">>]
>>

-----------------------------------------------------------------------------
(* Python numbers *)

\* bool(v) of None or a number: None and zero are false, NaN is true.
Truthy(v) ==
    IF v.tag = "None" THEN FALSE
    ELSE IF v.tag = "pct" THEN v.c # 0
    ELSE IF v.tag = "usd" THEN ~(v.hi = 0 /\ v.lo = 0)
    ELSE TRUE

\* a < b on floats: false as soon as either side is NaN.
PyLt(a, b) ==
    IF a.tag = "nan" \/ b.tag = "nan" THEN FALSE
    ELSE IF a.tag = "pct" THEN a.c < b.c
    ELSE a.hi < b.hi \/ (a.hi = b.hi /\ a.lo < b.lo)

\* a > b on floats.
PyGt(a, b) == PyLt(b, a)

Reverse(s) == [k \in 1..Len(s) |-> s[Len(s) + 1 - k]]

-----------------------------------------------------------------------------
(* list.sort / sorted on a short list (fewer than 64 items), as CPython    *)
(* runs it: count_run finds the leading run (ascending, or strictly        *)
(* descending and then reversed), binarysort inserts the remaining items   *)
(* one by one.  Only `<` on the keys is used.  Items are [key, item].      *)

RECURSIVE ExtendDescending(_, _)
ExtendDescending(s, n) ==
    IF n < Len(s) /\ PyLt(s[n + 1].key, s[n].key)
    THEN ExtendDescending(s, n + 1) ELSE n

RECURSIVE ExtendAscending(_, _)
ExtendAscending(s, n) ==
    IF n < Len(s) /\ ~PyLt(s[n + 1].key, s[n].key)
    THEN ExtendAscending(s, n + 1) ELSE n

count_run(s) ==
    IF Len(s) < 2 THEN [n |-> Len(s), descending |-> FALSE]
    ELSE IF PyLt(s[2].key, s[1].key)
         THEN [n |-> ExtendDescending(s, 2), descending |-> TRUE]
         ELSE [n |-> ExtendAscending(s, 2), descending |-> FALSE]

\* The slot of `pivot` among s[1..start-1]: l and r as in binarysort, r exclusive.
RECURSIVE BinarySlot(_, _, _, _)
BinarySlot(s, pivot, l, r) ==
    LET p == l + ((r - l) \div 2)
        below == PyLt(pivot.key, s[p].key)
        nl == IF below THEN l ELSE p + 1
        nr == IF below THEN p ELSE r
    IN IF nl < nr THEN BinarySlot(s, pivot, nl, nr) ELSE nl

MoveTo(s, start, slot) ==
    SubSeq(s, 1, slot - 1) \o <<s[start]>> \o SubSeq(s, slot, start - 1)
        \o SubSeq(s, start + 1, Len(s))

RECURSIVE binarysort(_, _)
binarysort(s, start) ==
    IF start > Len(s) THEN s
    ELSE binarysort(MoveTo(s, start, BinarySlot(s, s[start], 1, start)), start + 1)

ListSort(s) ==
    LET run == count_run(s)
        s1 == IF run.descending
              THEN Reverse(SubSeq(s, 1, run.n)) \o SubSeq(s, run.n + 1, Len(s))
              ELSE s
    IN binarysort(s1, run.n + 1)

Items(keyed) == [k \in 1..Len(keyed) |-> keyed[k].item]

\* sorted(values)
sorted(values) ==
    Items(ListSort([k \in 1..Len(values) |-> [key |-> values[k], item |-> values[k]]]))

\* max(values) of a non-empty list: the first item no later item is > than.
RECURSIVE MaxFrom(_, _, _)
MaxFrom(values, k, best) ==
    IF k > Len(values) THEN best
    ELSE MaxFrom(values, k + 1, IF PyGt(values[k], best) THEN values[k] ELSE best)

max(values) == MaxFrom(values, 2, values[1])

-----------------------------------------------------------------------------
(* find_best_pool, lines 34-45 *)

\* The filter with the chain compared as written, without lower().
PassesFilter_CaseSensitiveChain(p, proto) ==
    /\ In(lower(proto.project), lower(OrEmpty(p.project)))
    /\ OrEmpty(p.chain) = proto.search_chain

\* lines 37-38: the condition of the first comprehension
PassesFilter(p, proto) ==
    /\ In(lower(proto.project), lower(OrEmpty(p.project)))
    /\ lower(OrEmpty(p.chain)) = lower(proto.search_chain)

\* lines 35-39
FilterCandidates(ps, proto) == SelectSeq(ps, LAMBDA p : PassesFilter(p, proto))

\* lines 40-41: sym in (p.get("symbol") or "").upper()
HasSymbol(p, proto) == In(upper(proto.symbol), upper(OrEmpty(p.symbol)))

FilterExact(cands, proto) == SelectSeq(cands, LAMBDA p : HasSymbol(p, proto))

\* line 44: key=lambda p: p.get("tvlUsd") or 0
TvlKey(p) == IF Truthy(p.tvlUsd) THEN p.tvlUsd ELSE Usd(0, 0)

\* The sort as sorted(...)[::-1] would do it: equal keys end up reversed.
SortByTvl_ReversedAfter(cands) ==
    Reverse(Items(ListSort(
        [k \in 1..Len(cands) |-> [key |-> TvlKey(cands[k]), item |-> cands[k]]])))

\* line 44: list.sort(key=..., reverse=True) reverses the list, sorts it
\* ascending and stably, and reverses it again.
SortByTvl(cands) ==
    Reverse(Items(ListSort(Reverse(
        [k \in 1..Len(cands) |-> [key |-> TvlKey(cands[k]), item |-> cands[k]]]))))

\* line 45
FirstOrNone(cands) == IF cands # <<>> THEN cands[1] ELSE None

\* The whole call.
find_best_pool(ps, proto) ==
    LET c0 == FilterCandidates(ps, proto)
        ex == FilterExact(c0, proto)
        c1 == IF ex # <<>> THEN ex ELSE c0
    IN FirstOrNone(SortByTvl(c1))

-----------------------------------------------------------------------------
(* Formatting.  A formatted string is a tuple of characters. *)

\* The glyph fmt_tvl and fmt_apy return for a missing value (U+2014).
Placeholder == <<"EM DASH">>

DigitChar == <<"0","1","2","3","4","5","6","7","8","9">>

\* str(n) of an integer n >= 0
RECURSIVE Digits(_)
Digits(n) ==
    IF n < 10 THEN <<DigitChar[n + 1]>>
    ELSE Digits(n \div 10) \o <<DigitChar[(n % 10) + 1]>>

\* The fraction dropped instead of rounded.
RoundHalfEven_Truncating(q, r, half) == q

\* q + r/(2*half) rounded to an integer the way float formatting rounds:
\* to the nearest, and to the even neighbour from exactly half way.
RoundHalfEven(q, r, half) ==
    IF r < half THEN q
    ELSE IF r > half THEN q + 1
    ELSE IF q % 2 = 0 THEN q ELSE q + 1

\* f"{x:.1f}" of a number of tenths
OneDecimal(tenths) == Digits(tenths \div 10) \o <<".">> \o Digits(tenths % 10)

\* f"{v:.1f}" of a float: APYs are hundredths, NaN prints as nan.
FormatF1(v) ==
    IF v.tag = "nan" THEN <<"n","a","n">>
    ELSE OneDecimal(RoundHalfEven(v.c \div 10, v.c % 10, 5))

\* lines 47-54
fmt_tvl(v) ==
    IF ~Truthy(v) THEN Placeholder
    ELSE IF v.hi >= 1000
         THEN <<"$">>
              \o OneDecimal(RoundHalfEven(v.hi \div 100,
                                          (v.hi % 100) * 1000000 + v.lo, 50000000))
              \o <<"B">>
    ELSE IF v.hi >= 1
         THEN <<"$">> \o Digits(RoundHalfEven(v.hi, v.lo, 500000)) \o <<"M">>
    ELSE <<"$">> \o Digits(RoundHalfEven(v.lo \div 1000, v.lo % 1000, 500)) \o <<"K">>

\* Lines 57-58 written like line 48, `if not v`: zero is taken for missing
\* and NaN, which is true, is formatted.
fmt_apy_FalsyShortcut(v) ==
    IF ~Truthy(v) THEN Placeholder
    ELSE FormatF1(v) \o <<"%">>

\* lines 56-59
fmt_apy(v) ==
    IF v.tag = "None" \/ v.tag = "nan" THEN Placeholder
    ELSE FormatF1(v) \o <<"%">>

-----------------------------------------------------------------------------
(* build_html, lines 61-250.  The page is the record of what the template  *)
(* interpolates: the three statistics and the cards.  generated_at and the *)
(* fixed markup are left out.                                              *)

\* pool.get(key) if pool else None
GetOrNone(pool, key) == IF pool # None THEN pool[key] ELSE None

\* lines 71-73
SubLine(apy_base, apy_reward) ==
    IF /\ Truthy(apy_base) /\ Truthy(apy_reward)
       /\ PyGt(apy_base, Pct(0)) /\ PyGt(apy_reward, Pct(0))
    THEN <<"B","a","s","e"," ">> \o FormatF1(apy_base)
         \o <<"%"," ","+"," ","R","e","w","a","r","d","s"," ">> \o FormatF1(apy_reward) \o <<"%">>
    ELSE <<>>

\* lines 63-122: the card of results[i + 1]
Card(i, r) ==
    [proto |-> r.proto,
     delay |-> i * 60,
     apy_display |-> fmt_apy(GetOrNone(r.pool, "apy")),
     tvl_display |-> fmt_tvl(GetOrNone(r.pool, "tvlUsd")),
     sub_line |-> SubLine(GetOrNone(r.pool, "apyBase"), GetOrNone(r.pool, "apyReward"))]

\* line 125
StatApys(rs) ==
    LET kept == SelectSeq(rs, LAMBDA r : r.pool # None /\ r.pool.apy # None)
    IN [k \in 1..Len(kept) |-> kept[k].pool.apy]

\* line 127
MaxApy(apys) == IF apys # <<>> THEN FormatF1(max(apys)) \o <<"%">> ELSE Placeholder

\* lines 126, 128
MedianApy(apys) ==
    LET apys_sorted == sorted(apys)
    IN IF apys_sorted # <<>>
       THEN FormatF1(apys_sorted[(Len(apys_sorted) \div 2) + 1]) \o <<"%">>
       ELSE Placeholder

\* The count taken over `apys`, like the two other statistics.
StatCount_OfApys(rs) == Len(StatApys(rs))

\* line 211
StatCount(rs) == Len(rs)

\* The loop skipping the entries that have no pool.
build_html_SkipUnmatched(rs) ==
    LET shown == SelectSeq(rs, LAMBDA r : r.pool # None)
    IN [count |-> StatCount(rs),
        max_apy |-> MaxApy(StatApys(rs)),
        median_apy |-> MedianApy(StatApys(rs)),
        cards |-> [k \in 1..Len(shown) |-> Card(k - 1, shown[k])]]

build_html(rs) ==
    [count |-> StatCount(rs),
     max_apy |-> MaxApy(StatApys(rs)),
     median_apy |-> MedianApy(StatApys(rs)),
     cards |-> [k \in 1..Len(rs) |-> Card(k - 1, rs[k])]]

-----------------------------------------------------------------------------
(* Inputs.  The pools the provider may return: the keys of the registry in *)
(* other cases and inside longer names, other chains, missing fields,      *)
(* TVLs that are missing, zero, equal, and larger on a pool of another     *)
(* symbol.                                                                 *)

PoolUniverse == {
    [project |-> Str(<<"A","a","v","e","-","V","3">>),
     chain |-> Str(<<"e","t","h","e","r","e","u","m">>),
     symbol |-> Str(<<"U","S","D","C">>),
     apy |-> Pct(550), apyBase |-> Pct(300), apyReward |-> Pct(250), tvlUsd |-> Usd(2000, 0)],
    [project |-> Str(<<"a","a","v","e","-","v","3">>),
     chain |-> Str(<<"E","t","h","e","r","e","u","m">>),
     symbol |-> Str(<<"W","E","T","H">>),
     apy |-> Pct(1234), apyBase |-> Pct(1234), apyReward |-> None, tvlUsd |-> Usd(2300, 0)],
    [project |-> Str(<<"a","a","v","e","-","v","3">>),
     chain |-> Str(<<"E","t","h","e","r","e","u","m">>),
     symbol |-> Str(<<"s","U","s","d","c">>),
     apy |-> None, apyBase |-> None, apyReward |-> None, tvlUsd |-> None],
    [project |-> Str(<<"a","a","v","e","-","v","3">>),
     chain |-> Str(<<"E","t","h","e","r","e","u","m">>),
     symbol |-> None,
     apy |-> NaN, apyBase |-> Pct(0), apyReward |-> Pct(100), tvlUsd |-> Usd(0, 0)],
    [project |-> Str(<<"a","a","v","e","-","v","3">>),
     chain |-> Str(<<"E","t","h","e","r","e","u","m">>),
     symbol |-> Str(<<"U","S","D","C">>),
     apy |-> Pct(400), apyBase |-> Pct(425), apyReward |-> NaN, tvlUsd |-> Usd(2000, 0)],
    [project |-> Str(<<"a","a","v","e","-","v","3">>),
     chain |-> Str(<<"S","o","l","a","n","a">>),
     symbol |-> Str(<<"U","S","D","C">>),
     apy |-> Pct(0), apyBase |-> None, apyReward |-> Pct(100), tvlUsd |-> Usd(1, 500000)],
    [project |-> Str(<<"a","a","v","e","-","v","3">>),
     chain |-> None,
     symbol |-> Str(<<"U","S","D","C">>),
     apy |-> Pct(100), apyBase |-> None, apyReward |-> None, tvlUsd |-> Usd(0, 999)],
    [project |-> None,
     chain |-> Str(<<"E","t","h","e","r","e","u","m">>),
     symbol |-> Str(<<"U","S","D","C">>),
     apy |-> Pct(100), apyBase |-> None, apyReward |-> None, tvlUsd |-> Usd(5000, 0)],
    [project |-> Str(<<"a","a","v","e">>),
     chain |-> Str(<<"E","t","h","e","r","e","u","m">>),
     symbol |-> Str(<<"U","S","D","C">>),
     apy |-> Pct(200), apyBase |-> None, apyReward |-> None, tvlUsd |-> Usd(9000, 0)],
    [project |-> Str(<<"l","i","d","o">>),
     chain |-> Str(<<"E","t","h","e","r","e","u","m">>),
     symbol |-> Str(<<"S","T","E","T","H">>),
     apy |-> Pct(300), apyBase |-> Pct(300), apyReward |-> Pct(0), tvlUsd |-> Usd(2300, 0)],
    [project |-> Str(<<"l","i","d","o","-","v","2">>),
     chain |-> Str(<<"E","T","H","E","R","E","U","M">>),
     symbol |-> Str(<<"w","s","t","E","T","H">>),
     apy |-> Pct(200), apyBase |-> Pct(175), apyReward |-> Pct(25), tvlUsd |-> Usd(2400, 0)],
    [project |-> Str(<<"u","n","i","s","w","a","p","-","v","3">>),
     chain |-> Str(<<"E","t","h","e","r","e","u","m","2">>),
     symbol |-> Str(<<"U","S","D","C">>),
     apy |-> Pct(2575), apyBase |-> Pct(2575), apyReward |-> None, tvlUsd |-> Usd(0, 750000)],
    [project |-> Str(<<"k","a","m","i","n","o","-","l","i","q","u","i","d","i","t","y">>),
     chain |-> Str(<<"s","o","l","a","n","a">>),
     symbol |-> Str(<<"U","S","D","C","-","S","O","L">>),
     apy |-> Pct(875), apyBase |-> Pct(400), apyReward |-> Pct(475), tvlUsd |-> Usd(12, 345678)]
}

MaxPools == 2

\* The lists of at most n items of S.
ListsUpTo(S, n) == UNION {[1..k -> S] : k \in 0..n}

-----------------------------------------------------------------------------
(* main(), lines 252-270 *)

\* What docs/index.html holds before the run: nothing, or an earlier page.
NoFile == [tag |-> "absent"]
OldPage == [tag |-> "page of an earlier run"]

\* How requests.get / raise_for_status / r.json()["data"] can fail.
FetchErrors == {"ConnectionError", "Timeout", "HTTPError", "JSONDecodeError", "KeyError"}

Init ==
    /\ PROTOCOLS = Registry
    /\ pc = "fetch"
    /\ exc = None
    /\ pools = <<>>
    /\ idx = 1
    /\ candidates = <<>>
    /\ exact = <<>>
    /\ results = <<>>
    /\ html = None
    /\ file \in {NoFile, OldPage}
    /\ requests_n = 0
    /\ writes_n = 0
    /\ fmt_in = None
    /\ fmt_out = <<>>

\* lines 26-32 and 253: the request succeeds
FetchOk ==
    /\ pc = "fetch"
    /\ \E fetched \in ListsUpTo(PoolUniverse, MaxPools) : pools' = fetched
    /\ requests_n' = requests_n + 1
    /\ pc' = "filter"
    /\ UNCHANGED <<PROTOCOLS, exc, idx, candidates, exact, results, html, file,
                   writes_n, fmt_in, fmt_out>>

\* The failure caught and replaced by an empty collection: the run goes on.
FetchFail_Swallowed ==
    /\ pc = "fetch"
    /\ \E e \in FetchErrors : exc' = [tag |-> "exception", type |-> e]
    /\ requests_n' = requests_n + 1
    /\ pools' = <<>>
    /\ pc' = "filter"
    /\ UNCHANGED <<PROTOCOLS, idx, candidates, exact, results, html, file,
                   writes_n, fmt_in, fmt_out>>

\* lines 28-30: the request raises, and main() ends with the exception
FetchFail ==
    /\ pc = "fetch"
    /\ \E e \in FetchErrors : exc' = [tag |-> "exception", type |-> e]
    /\ requests_n' = requests_n + 1
    /\ pc' = "aborted"
    /\ UNCHANGED <<PROTOCOLS, pools, idx, candidates, exact, results, html, file,
                   writes_n, fmt_in, fmt_out>>

\* lines 35-39, for proto = PROTOCOLS[idx]
Filter ==
    /\ pc = "filter"
    /\ candidates' = FilterCandidates(pools, PROTOCOLS[idx])
    /\ pc' = "narrow"
    /\ UNCHANGED <<PROTOCOLS, exc, pools, idx, exact, results, html, file,
                   requests_n, writes_n, fmt_in, fmt_out>>

\* Lines 40-41 without lines 42-43: `exact` is computed and not used.
Narrow_KeepAll ==
    /\ pc = "narrow"
    /\ exact' = FilterExact(candidates, PROTOCOLS[idx])
    /\ candidates' = candidates
    /\ pc' = "sort"
    /\ UNCHANGED <<PROTOCOLS, exc, pools, idx, results, html, file,
                   requests_n, writes_n, fmt_in, fmt_out>>

\* lines 40-43
Narrow ==
    /\ pc = "narrow"
    /\ exact' = FilterExact(candidates, PROTOCOLS[idx])
    /\ candidates' = IF exact' # <<>> THEN exact' ELSE candidates
    /\ pc' = "sort"
    /\ UNCHANGED <<PROTOCOLS, exc, pools, idx, results, html, file,
                   requests_n, writes_n, fmt_in, fmt_out>>

\* Line 44 sorting the caller's list as well, as pools.sort(...) would.
Sort_PoolsInPlace ==
    /\ pc = "sort"
    /\ candidates' = SortByTvl(candidates)
    /\ exact' = IF exact # <<>> THEN candidates' ELSE exact
    /\ pools' = SortByTvl(pools)
    /\ pc' = "return"
    /\ UNCHANGED <<PROTOCOLS, exc, idx, results, html, file,
                   requests_n, writes_n, fmt_in, fmt_out>>

\* line 44: sorts the list `candidates` names, which is `exact` when that
\* was not empty, and never the list `pools` names.
Sort ==
    /\ pc = "sort"
    /\ candidates' = SortByTvl(candidates)
    /\ exact' = IF exact # <<>> THEN candidates' ELSE exact
    /\ pc' = "return"
    /\ UNCHANGED <<PROTOCOLS, exc, pools, idx, results, html, file,
                   requests_n, writes_n, fmt_in, fmt_out>>

\* The loop with the append inside `if pool:`: an unmatched entry is dropped.
Append_OnlyMatched ==
    /\ pc = "return"
    /\ results' = IF FirstOrNone(candidates) # None
                  THEN Append(results, [proto |-> PROTOCOLS[idx],
                                        pool |-> FirstOrNone(candidates)])
                  ELSE results
    /\ idx' = idx + 1
    /\ candidates' = <<>>
    /\ exact' = <<>>
    /\ pc' = IF idx < Len(PROTOCOLS) THEN "filter" ELSE "render"
    /\ UNCHANGED <<PROTOCOLS, exc, pools, html, file,
                   requests_n, writes_n, fmt_in, fmt_out>>

\* lines 45 and 256-262: the call returns, the pair is appended, the loop
\* moves on (the two print calls write to stdout only)
Append_ ==
    /\ pc = "return"
    /\ results' = Append(results, [proto |-> PROTOCOLS[idx],
                                   pool |-> FirstOrNone(candidates)])
    /\ idx' = idx + 1
    /\ candidates' = <<>>
    /\ exact' = <<>>
    /\ pc' = IF idx < Len(PROTOCOLS) THEN "filter" ELSE "render"
    /\ UNCHANGED <<PROTOCOLS, exc, pools, html, file,
                   requests_n, writes_n, fmt_in, fmt_out>>

\* lines 264-265
BuildHtml ==
    /\ pc = "render"
    /\ html' = build_html(results)
    /\ pc' = "write"
    /\ UNCHANGED <<PROTOCOLS, exc, pools, idx, candidates, exact, results, file,
                   requests_n, writes_n, fmt_in, fmt_out>>

\* lines 267-270
Write ==
    /\ pc = "write"
    /\ file' = html
    /\ writes_n' = writes_n + 1
    /\ pc' = "done"
    /\ UNCHANGED <<PROTOCOLS, exc, pools, idx, candidates, exact, results, html,
                   requests_n, fmt_in, fmt_out>>

Next ==
    \/ FetchOk
    \/ FetchFail
    \/ Filter
    \/ Narrow
    \/ Sort
    \/ Append_
    \/ BuildHtml
    \/ Write

Spec == Init /\ [][Next]_vars

-----------------------------------------------------------------------------
(* build_html on its own: any results list of at most MaxResults entries,  *)
(* entry k pairing PROTOCOLS[k] with no pool or with a pool of that         *)
(* project, chain and symbol whose apy is missing, NaN, zero or one of     *)
(* four values.                                                            *)

RenderNumbers == {
    [apy |-> None, apyBase |-> Pct(300), apyReward |-> Pct(100), tvlUsd |-> Usd(0, 0)],
    [apy |-> NaN, apyBase |-> None, apyReward |-> None, tvlUsd |-> None],
    [apy |-> Pct(0), apyBase |-> Pct(0), apyReward |-> Pct(0), tvlUsd |-> Usd(0, 999)],
    [apy |-> Pct(100), apyBase |-> Pct(75), apyReward |-> Pct(25), tvlUsd |-> Usd(1, 500000)],
    [apy |-> Pct(200), apyBase |-> NaN, apyReward |-> Pct(100), tvlUsd |-> Usd(2300, 0)],
    [apy |-> Pct(300), apyBase |-> Pct(300), apyReward |-> None, tvlUsd |-> Usd(2000, 0)],
    [apy |-> Pct(400), apyBase |-> Pct(125), apyReward |-> Pct(275), tvlUsd |-> Usd(0, 750000)]
}

\* A pool find_best_pool can return for proto, with the numbers of nums.
RenderPool(proto, nums) ==
    [project |-> Str(proto.project),
     chain |-> Str(proto.search_chain),
     symbol |-> Str(proto.symbol),
     apy |-> nums.apy, apyBase |-> nums.apyBase, apyReward |-> nums.apyReward,
     tvlUsd |-> nums.tvlUsd]

RenderChoices == RenderNumbers \cup {None}

MaxResults == 4

RenderInputs == UNION {[1..n -> RenderChoices] : n \in 0..MaxResults}

InitRender ==
    /\ PROTOCOLS = Registry
    /\ pc = "render"
    /\ exc = None
    /\ pools = <<>>
    /\ idx = 1
    /\ candidates = <<>>
    /\ exact = <<>>
    /\ \E choice \in RenderInputs :
           results = [k \in 1..Len(choice) |->
                          [proto |-> Registry[k],
                           pool |-> IF choice[k] = None THEN None
                                    ELSE RenderPool(Registry[k], choice[k])]]
    /\ html = None
    /\ file = NoFile
    /\ requests_n = 0
    /\ writes_n = 0
    /\ fmt_in = None
    /\ fmt_out = <<>>

NextRender == BuildHtml

SpecRender == InitRender /\ [][NextRender]_vars

-----------------------------------------------------------------------------
(* fmt_tvl and fmt_apy on their own *)

TvlMillions == {0, 1, 2, 999, 1000, 1249, 1250, 1750, 2300, 2349}
TvlUnits == {0, 1, 499, 500, 501, 999, 1000, 1499, 1500, 2500,
             499999, 500000, 500001, 999499, 999500, 999999}

TvlInputs == {None} \cup {Usd(hi, lo) : hi \in TvlMillions, lo \in TvlUnits}

MaxApyInput == 130

\* Hundredths whose one-decimal rounding does not rest on the double's last bit.
RoundsExactly(c) == (c % 10 = 5) => (c % 100 \in {25, 75})

ApyInputs ==
    {None, NaN} \cup {Pct(c) : c \in {c \in (0..MaxApyInput) \cup {550, 1234} : RoundsExactly(c)}}

InitFmt ==
    /\ PROTOCOLS = Registry
    /\ pc \in {"fmt_tvl", "fmt_apy"}
    /\ exc = None
    /\ pools = <<>>
    /\ idx = 1
    /\ candidates = <<>>
    /\ exact = <<>>
    /\ results = <<>>
    /\ html = None
    /\ file = NoFile
    /\ requests_n = 0
    /\ writes_n = 0
    /\ fmt_in \in IF pc = "fmt_tvl" THEN TvlInputs ELSE ApyInputs
    /\ fmt_out = <<>>

CallFmtTvl ==
    /\ pc = "fmt_tvl"
    /\ fmt_out' = fmt_tvl(fmt_in)
    /\ pc' = "fmt_tvl_done"
    /\ UNCHANGED <<PROTOCOLS, exc, pools, idx, candidates, exact, results, html, file,
                   requests_n, writes_n, fmt_in>>

CallFmtApy ==
    /\ pc = "fmt_apy"
    /\ fmt_out' = fmt_apy(fmt_in)
    /\ pc' = "fmt_apy_done"
    /\ UNCHANGED <<PROTOCOLS, exc, pools, idx, candidates, exact, results, html, file,
                   requests_n, writes_n, fmt_in>>

NextFmt ==
    \/ CallFmtTvl
    \/ CallFmtApy

SpecFmt == InitFmt /\ [][NextFmt]_vars

-----------------------------------------------------------------------------
(* Properties *)

AfterLoop == pc \in {"render", "write", "done"}
Matching == pc \in {"filter", "narrow", "sort", "return"}

\* Case-insensitive comparison said without lower() and upper(): two
\* characters are the same letter, whatever their case.
SameLetter(c, d) ==
    \/ c = d
    \/ \E k \in 1..26 : \/ c = LowerCase[k] /\ d = UpperCase[k]
                        \/ c = UpperCase[k] /\ d = LowerCase[k]

EqualsIgnoringCase(a, b) ==
    Len(a) = Len(b) /\ \A k \in 1..Len(a) : SameLetter(a[k], b[k])

ContainsIgnoringCase(hay, needle) ==
    \E off \in 0..(Len(hay) - Len(needle)) :
        \A k \in 1..Len(needle) : SameLetter(hay[off + k], needle[k])

\* Step 1 of the matcher, as the specification words it.
Step1(p, proto) ==
    /\ p.project # None
    /\ p.chain # None
    /\ ContainsIgnoringCase(p.project.s, proto.project)
    /\ EqualsIgnoringCase(p.chain.s, proto.search_chain)

SymbolMatches(p, proto) ==
    p.symbol # None /\ ContainsIgnoringCase(p.symbol.s, proto.symbol)

\* The positions of ps that pass step 1, and those left after step 2.
Step1Set(ps, proto) == {j \in 1..Len(ps) : Step1(ps[j], proto)}

Step2Set(ps, proto) ==
    LET s1 == Step1Set(ps, proto)
        sym == {j \in s1 : SymbolMatches(ps[j], proto)}
    IN IF sym # {} THEN sym ELSE s1

\* Total value locked in dollars as a pair, a missing value counted as zero.
TvlOrZero(p) == IF p.tvlUsd = None THEN <<0, 0>> ELSE <<p.tvlUsd.hi, p.tvlUsd.lo>>

AtLeast(a, b) == a[1] > b[1] \/ (a[1] = b[1] /\ a[2] >= b[2])

\* The earliest position of S whose TVL no position of S exceeds.
BestOf(ps, S) ==
    LET top == {j \in S : \A m \in S : AtLeast(TvlOrZero(ps[j]), TvlOrZero(ps[m]))}
    IN CHOOSE j \in top : \A m \in top : j <= m

\* C1: once the loop of main() is over, results has one entry per PROTOCOLS
\* entry, in registry order, entry i pairing PROTOCOLS[i] with
\* find_best_pool(pools, PROTOCOLS[i]), matched or not; while the loop runs
\* results holds exactly the entries of the descriptors already visited.
C1_OneResultPerProtocol ==
    /\ Matching => Len(results) = idx - 1
    /\ AfterLoop =>
           /\ Len(results) = Len(PROTOCOLS)
           /\ \A i \in 1..Len(PROTOCOLS) :
                  /\ results[i].proto = PROTOCOLS[i]
                  /\ results[i].pool = find_best_pool(pools, PROTOCOLS[i])

C1_Witness ==
    /\ pc = "render"
    /\ \E i \in 1..Len(results) : results[i].pool = None
    /\ \E i \in 1..Len(results) : results[i].pool # None

\* What the call of find_best_pool that is about to return returns, and the
\* descriptor it was called with.
Returned == FirstOrNone(candidates)
Proto == PROTOCOLS[idx]

\* C2: find_best_pool returns None exactly when no pool of the collection
\* passes step 1; a pool it returns is an element of the collection and
\* passes step 1, so its project and chain are present.
C2_NoMatchIffNoCandidate ==
    pc = "return" =>
        /\ (Returned = None) <=> (Step1Set(pools, Proto) = {})
        /\ Returned # None =>
               /\ \E j \in 1..Len(pools) : pools[j] = Returned
               /\ Step1(Returned, Proto)
               /\ Returned.project # None /\ Returned.chain # None

\* A pool in another case matched, beside a pool with no project field.
C2_Witness ==
    /\ pc = "return"
    /\ Returned # None
    /\ Returned.chain.s # Proto.search_chain
    /\ \E j \in 1..Len(pools) : pools[j].project = None \/ pools[j].chain = None

\* C3: the pool find_best_pool returns is, among the pools left after steps
\* 1 and 2, one of greatest tvlUsd (a missing tvlUsd counting as zero), and
\* of those the one that comes first in the pool collection.
C3_GreatestTvlFirstWins ==
    (pc = "return" /\ Returned # None) =>
        Returned = pools[BestOf(pools, Step2Set(pools, Proto))]

\* Two different pools tie for the greatest TVL and the earlier one is returned.
C3_Witness ==
    /\ pc = "return"
    /\ Returned # None
    /\ \E j, m \in Step2Set(pools, Proto) :
           /\ j < m
           /\ pools[j] # pools[m]
           /\ TvlOrZero(pools[j]) = TvlOrZero(pools[m])
           /\ j = BestOf(pools, Step2Set(pools, Proto))
           /\ Returned = pools[j]

\* C4: when some pool that passes step 1 has a symbol containing the
\* expected symbol, whatever the case, the returned pool has such a symbol,
\* even if a step-1 pool without it has a larger tvlUsd; when none has, the
\* pool is chosen from all the pools that pass step 1.
C4_SymbolNarrowing ==
    pc = "return" =>
        LET s1 == Step1Set(pools, Proto)
            sym == {j \in s1 : SymbolMatches(pools[j], Proto)}
        IN /\ sym # {} => (Returned # None /\ SymbolMatches(Returned, Proto))
           /\ (sym = {} /\ s1 # {}) => Returned = pools[BestOf(pools, s1)]

\* The returned pool has the symbol and a step-1 pool without it has more TVL.
C4_Witness ==
    /\ pc = "return"
    /\ Returned # None
    /\ SymbolMatches(Returned, Proto)
    /\ \E j \in Step1Set(pools, Proto) :
           /\ ~SymbolMatches(pools[j], Proto)
           /\ ~AtLeast(TvlOrZero(Returned), TvlOrZero(pools[j]))

\* C5: a call of find_best_pool changes neither the pool collection (its
\* items, their order) nor the descriptors, and what it returns is what a
\* call with the same collection and descriptor returns afterwards,
\* whichever descriptors were matched before.
C5_MatchingIsPure ==
    /\ [][Matching => (pools' = pools /\ PROTOCOLS' = PROTOCOLS)]_vars
    /\ [](pc = "return" => Returned = find_best_pool(pools, Proto))

\* The sort has reordered the candidates, and a descriptor was matched before.
C5_Witness ==
    /\ pc = "return"
    /\ idx > 1
    /\ Len(pools) = 2
    /\ pools[1] # pools[2]
    /\ candidates = <<pools[2], pools[1]>>

\* C6: the request is issued once; when it fails main() ends with the
\* exception, nothing is matched or rendered and the file is left as it
\* was; the file changes only in the one write of a run whose fetch
\* succeeded, after every registry entry was matched and the page rendered.
C6_AllOrNothing ==
    /\ [](/\ requests_n <= 1
          /\ writes_n <= 1
          /\ exc # None => pc = "aborted"
          /\ pc = "aborted" =>
                 /\ exc # None
                 /\ requests_n = 1
                 /\ results = <<>>
                 /\ html = None
                 /\ writes_n = 0
          /\ writes_n = 1 =>
                 /\ exc = None
                 /\ requests_n = 1
                 /\ Len(results) = Len(PROTOCOLS)
                 /\ html = build_html(results)
                 /\ file = html)
    /\ [][file' # file =>
              /\ pc = "write"
              /\ exc = None
              /\ writes_n = 0
              /\ Len(results) = Len(PROTOCOLS)
              /\ file' = html]_vars

\* The fetch failed and the earlier page is still on disk.
C6_Witness == pc = "aborted" /\ exc # None /\ file = OldPage

\* C7: build_html makes one card per entry of results, in the order of
\* results; the card of an entry with no pool shows the placeholder as APY
\* and as TVL, the card of an entry with a pool shows fmt_apy of its apy and
\* fmt_tvl of its tvlUsd; every entry has exactly one card.
C7_OneCardPerResult ==
    pc = "write" =>
        /\ Len(html.cards) = Len(results)
        /\ \A k \in 1..Len(results) :
               LET r == results[k]
                   card == html.cards[k]
               IN /\ card.proto = r.proto
                  /\ Cardinality({m \in 1..Len(html.cards) :
                                      html.cards[m].proto = r.proto}) = 1
                  /\ r.pool = None =>
                         /\ card.apy_display = Placeholder
                         /\ card.tvl_display = Placeholder
                  /\ r.pool # None =>
                         /\ card.apy_display = fmt_apy(r.pool.apy)
                         /\ card.tvl_display = fmt_tvl(r.pool.tvlUsd)

\* An entry with no pool rendered next to one whose APY and TVL are shown.
C7_Witness ==
    /\ pc = "write"
    /\ \E k \in 1..Len(results) :
           results[k].pool = None /\ html.cards[k].apy_display = Placeholder
    /\ \E k \in 1..Len(results) :
           /\ results[k].pool # None
           /\ html.cards[k].apy_display # Placeholder
           /\ html.cards[k].tvl_display # Placeholder

IsDigit(c) == \E d \in 1..10 : DigitChar[d] = c

\* The number a tuple of digits writes.
RECURSIVE NumberOf(_)
NumberOf(chars) ==
    IF chars = <<>> THEN 0
    ELSE NumberOf(SubSeq(chars, 1, Len(chars) - 1)) * 10
         + (CHOOSE d \in 0..9 : DigitChar[d + 1] = chars[Len(chars)])

AllDigits(chars) == chars # <<>> /\ \A k \in 1..Len(chars) : IsDigit(chars[k])

Abs(n) == IF n < 0 THEN -n ELSE n

\* C8: fmt_tvl returns the placeholder exactly for None and zero; any other
\* value gives "$", the value in billions to one decimal and "B" from 10^9
\* on, in millions to no decimal and "M" from 10^6 on, in thousands to no
\* decimal and "K" below, the number shown being the nearest one; 999 gives
\* "$1K", 1,500,000 gives "$2M" and 2,300,000,000 gives "$2.3B".
C8_FmtTvl ==
    pc = "fmt_tvl_done" =>
        LET zero == fmt_in = None \/ fmt_in = Usd(0, 0)
            n == Len(fmt_out)
            body == SubSeq(fmt_out, 2, n - 1)
        IN /\ (fmt_out = Placeholder) <=> zero
           /\ ~zero =>
                  /\ n >= 3
                  /\ fmt_out[1] = "$"
                  /\ IF fmt_in.hi >= 1000
                     THEN /\ fmt_out[n] = "B"
                          /\ Len(body) >= 3
                          /\ body[Len(body) - 1] = "."
                          /\ AllDigits(SubSeq(body, 1, Len(body) - 2))
                          /\ IsDigit(body[Len(body)])
                          /\ LET tenths == NumberOf(SubSeq(body, 1, Len(body) - 2)) * 10
                                               + NumberOf(<<body[Len(body)]>>)
                                 d == tenths * 100 - fmt_in.hi
                             IN /\ d \in -51..51
                                /\ 2 * Abs(d * 1000000 - fmt_in.lo) <= 100000000
                     ELSE IF fmt_in.hi >= 1
                     THEN /\ fmt_out[n] = "M"
                          /\ AllDigits(body)
                          /\ 2 * Abs(NumberOf(body) * 1000000
                                         - (fmt_in.hi * 1000000 + fmt_in.lo)) <= 1000000
                     ELSE /\ fmt_out[n] = "K"
                          /\ AllDigits(body)
                          /\ 2 * Abs(NumberOf(body) * 1000 - fmt_in.lo) <= 1000
           /\ fmt_in = Usd(0, 999) => fmt_out = <<"$", "1", "K">>
           /\ fmt_in = Usd(1, 500000) => fmt_out = <<"$", "2", "M">>
           /\ fmt_in = Usd(2300, 0) => fmt_out = <<"$", "2", ".", "3", "B">>

C8_Witness ==
    /\ pc = "fmt_tvl_done"
    /\ fmt_in = Usd(0, 999)
    /\ fmt_out = <<"$", "1", "K">>

\* The APYs of the results whose pool is present and whose apy is present.
PresentApys(rs) ==
    LET kept == SelectSeq(rs, LAMBDA r : r.pool # None /\ r.pool.apy # None)
    IN [k \in 1..Len(kept) |-> kept[k].pool.apy]

\* a <= b
Leq(a, b) == a = b \/ PyLt(a, b)

Arrangements(n) == {f \in [1..n -> 1..n] : \A i, j \in 1..n : i # j => f[i] # f[j]}

\* C9: with n the number of present APYs, the median statistic is the item
\* at index floor(n/2) of those APYs sorted in ascending order and the max
\* statistic is the greatest of them; both are the placeholder when n = 0.
C9_MedianAndMax ==
    pc = "write" =>
        LET apys == PresentApys(results)
            n == Len(apys)
        IN IF n = 0
           THEN html.median_apy = Placeholder /\ html.max_apy = Placeholder
           ELSE /\ \E f \in Arrangements(n) :
                       LET s == [k \in 1..n |-> apys[f[k]]]
                       IN /\ \A j, k \in 1..n : j < k => Leq(s[j], s[k])
                          /\ html.median_apy = FormatF1(s[(n \div 2) + 1]) \o <<"%">>
                /\ \E m \in 1..n :
                       /\ \A k \in 1..n : Leq(apys[k], apys[m])
                       /\ html.max_apy = FormatF1(apys[m]) \o <<"%">>

\* C9 with no NaN among the APYs: the statistics are as the claim says.
NoNaNApy ==
    \A k \in 1..Len(results) : results[k].pool # None => results[k].pool.apy # NaN

C9_HoldsWithoutNaN == NoNaNApy => C9_MedianAndMax

\* C10 as stated: the count statistic is the number of results whose pool
\* is present and whose apy is present.
C10_CountOfPresentApys ==
    pc = "write" => html.count = Len(PresentApys(results))

\* C10 as amended: the count statistic is the number of entries of results,
\* whether or not their pool or their apy is present.
C10_CountOfResults ==
    pc = "write" => html.count = Len(results)

\* Entries with no pool or no apy are counted.
C10_Witness ==
    /\ pc = "write"
    /\ \E k \in 1..Len(results) : results[k].pool = None
    /\ \E k \in 1..Len(results) : results[k].pool # None /\ results[k].pool.apy = None
    /\ html.count = Len(results)
    /\ html.count > Len(PresentApys(results))

\* C11: fmt_apy returns the placeholder exactly for None and NaN; any other
\* value, zero included, gives the value to exactly one decimal, the
\* nearest one, followed by "%": 0 gives "0.0%" and 12.34 gives "12.3%".
\* Zero is shown as a number by fmt_apy and as the placeholder by fmt_tvl.
C11_FmtApy ==
    /\ pc = "fmt_apy_done" =>
           LET missing == fmt_in = None \/ fmt_in = NaN
               n == Len(fmt_out)
           IN /\ (fmt_out = Placeholder) <=> missing
              /\ ~missing =>
                     /\ n >= 4
                     /\ fmt_out[n] = "%"
                     /\ fmt_out[n - 2] = "."
                     /\ IsDigit(fmt_out[n - 1])
                     /\ AllDigits(SubSeq(fmt_out, 1, n - 3))
                     /\ LET tenths == NumberOf(SubSeq(fmt_out, 1, n - 3)) * 10
                                          + NumberOf(<<fmt_out[n - 1]>>)
                        IN 2 * Abs(tenths * 10 - fmt_in.c) <= 10
              /\ fmt_in = Pct(0) => fmt_out = <<"0", ".", "0", "%">>
              /\ fmt_in = Pct(1234) => fmt_out = <<"1", "2", ".", "3", "%">>
    /\ (pc = "fmt_tvl_done" /\ fmt_in = Usd(0, 0)) => fmt_out = Placeholder

\* Zero went through fmt_apy and came out as a number.
C11_Witness ==
    /\ pc = "fmt_apy_done"
    /\ fmt_in = Pct(0)
    /\ fmt_out = <<"0", ".", "0", "%">>

====
